---- MODULE Spec2Model ----
(***************************************************************************)
(* Reversi rules engine (src/lib.rs): board, direction scanner, move       *)
(* resolver, turn controller and scorer of the `Reversi` contract.         *)
(*                                                                         *)
(* The board is disks[y][x], a function from row y to (column x -> cell),  *)
(* a cell being "None", "Black" or "White" (Option<Disk>).                 *)
(* The methods are modelled as they run when called on the struct: a       *)
(* method that returns Err keeps whatever it wrote to self before.         *)
(***************************************************************************)
EXTENDS Integers, FiniteSets, Sequences, TLC

VARIABLES board_size, players, active_player_index, board, is_game_over,
          winner, ret

vars == <<board_size, players, active_player_index, board, is_game_over,
          winner, ret>>

\* The fields of the struct Reversi. ret is the last call: the message, its
\* caller and what it returned.
state == <<board_size, players, active_player_index, board, is_game_over, winner>>

----------------------------------------------------------------------------
\* Program constants

ZERO_ADDRESS == "zero"

MAX_BOARD_SIZE == 10

MIN_BOARD_SIZE == 6

U8_MAX == 255

----------------------------------------------------------------------------
\* Bounds of the exploration

\* make_move is explored with the first NCalls calls of MoveCalls.
NCalls == 14

\* In the games played to their end, every legal move and every explored call
\* is taken while the board holds fewer than LiveFree disks; from then on the
\* active player takes its first legal move.
LiveFree == 5

\* The board sizes games are explored on.
GameSizes == {MIN_BOARD_SIZE}

\* The accounts that call the contract: the two players and a stranger.
Callers == {"alice", "bob", "charlie"}

----------------------------------------------------------------------------
\* Disk

Disks == {"Black", "White"}

opposite(disk) == IF disk = "Black" THEN "White" ELSE "Black"

----------------------------------------------------------------------------
\* Board

\* The asserts of Board::new with the upper one strict.
board_new_asserts_strict(size) ==
    size >= MIN_BOARD_SIZE /\ size < MAX_BOARD_SIZE /\ size % 2 = 0

\* The three asserts Board::new starts with: all hold, or it panics.
board_new_asserts(size) ==
    size >= MIN_BOARD_SIZE /\ size <= MAX_BOARD_SIZE /\ size % 2 = 0

\* Board::new with the two colours of the centre exchanged.
BoardNew_swapped(size) ==
    LET h == size \div 2
        empty == [y \in 0..(size - 1) |-> [x \in 0..(size - 1) |-> "None"]]
    IN  [empty EXCEPT ![h - 1][h - 1] = "Black",
                      ![h][h] = "Black",
                      ![h - 1][h] = "White",
                      ![h][h - 1] = "White"]

\* Board::new past its asserts: the disks it returns.
BoardNew(size) ==
    LET h == size \div 2
        empty == [y \in 0..(size - 1) |-> [x \in 0..(size - 1) |-> "None"]]
    IN  [empty EXCEPT ![h - 1][h - 1] = "White",
                      ![h][h] = "White",
                      ![h - 1][h] = "Black",
                      ![h][h - 1] = "Black"]

----------------------------------------------------------------------------
\* Reversi: the helpers. Each takes the board b and its size n it reads.

is_inside_board(n, x, y) ==
    ~(x < 0 \/ x >= n \/ y < 0 \/ y >= n)

\* flippable_scan with an empty cell skipped instead of ending the scan.
RECURSIVE flippable_scan_skips_blank(_, _, _, _, _, _, _)
flippable_scan_skips_blank(b, n, disk, x, y, dx, dy) ==
    IF ~is_inside_board(n, x, y) THEN FALSE
    ELSE IF b[y][x] = disk THEN TRUE
    ELSE flippable_scan_skips_blank(b, n, disk, x + dx, y + dy, dx, dy)

\* The while loop of is_flippable_direction, entered at (x, y).
RECURSIVE flippable_scan(_, _, _, _, _, _, _)
flippable_scan(b, n, disk, x, y, dx, dy) ==
    IF ~is_inside_board(n, x, y) THEN FALSE
    ELSE IF b[y][x] = disk THEN TRUE
    ELSE IF b[y][x] = "None" THEN FALSE
    ELSE flippable_scan(b, n, disk, x + dx, y + dy, dx, dy)

\* is_flippable_direction without the check of the square next to (x, y).
is_flippable_from_next(b, n, disk, x, y, dx, dy) ==
    flippable_scan(b, n, disk, x + dx, y + dy, dx, dy)

is_flippable_direction(b, n, disk, x, y, dx, dy) ==
    LET x1 == x + dx
        y1 == y + dy
    IN  IF ~is_inside_board(n, x1, y1) THEN FALSE
        ELSE IF b[y1][x1] = disk THEN FALSE
        ELSE IF b[y1][x1] = "None" THEN FALSE
        ELSE flippable_scan(b, n, disk, x1 + dx, y1 + dy, dx, dy)

\* The 8 directions, in the order is_valid_place and place_disk take them.
Directions ==
    << <<1, 0>>, <<0, 1>>, <<-1, 0>>, <<0, -1>>,
       <<1, 1>>, <<-1, -1>>, <<1, -1>>, <<-1, 1>> >>

is_valid_place(b, n, disk, x, y) ==
    IF ~is_inside_board(n, x, y) THEN FALSE
    ELSE IF b[y][x] # "None" THEN FALSE
    ELSE \E k \in 1..Len(Directions) :
            is_flippable_direction(b, n, disk, x, y, Directions[k][1], Directions[k][2])

\* flip_walk without the break at a disk of the mover's colour.
RECURSIVE flip_walk_past_own(_, _, _, _, _, _, _, _)
flip_walk_past_own(b, n, disk, x, y, dx, dy, cnt) ==
    IF ~is_inside_board(n, x, y) THEN [board |-> b, count |-> cnt]
    ELSE IF b[y][x] \in {disk, "None"}
         THEN flip_walk_past_own(b, n, disk, x + dx, y + dy, dx, dy, cnt)
         ELSE flip_walk_past_own([b EXCEPT ![y][x] = disk], n, disk, x + dx, y + dy,
                                 dx, dy, (cnt + 1) % (U8_MAX + 1))

\* flip_walk with a captured disk taken off the board instead of turned over.
RECURSIVE flip_walk_removes(_, _, _, _, _, _, _, _)
flip_walk_removes(b, n, disk, x, y, dx, dy, cnt) ==
    IF ~is_inside_board(n, x, y) THEN [board |-> b, count |-> cnt]
    ELSE IF b[y][x] = disk THEN [board |-> b, count |-> cnt]
    ELSE IF b[y][x] = "None"
         THEN flip_walk_removes(b, n, disk, x + dx, y + dy, dx, dy, cnt)
         ELSE flip_walk_removes([b EXCEPT ![y][x] = "None"], n, disk, x + dx, y + dy,
                                dx, dy, (cnt + 1) % (U8_MAX + 1))

\* The while loop of the closure flip_disks, entered at (x, y) with cnt flipped.
RECURSIVE flip_walk(_, _, _, _, _, _, _, _)
flip_walk(b, n, disk, x, y, dx, dy, cnt) ==
    IF ~is_inside_board(n, x, y) THEN [board |-> b, count |-> cnt]
    ELSE IF b[y][x] = disk THEN [board |-> b, count |-> cnt]
    ELSE IF b[y][x] = "None"
         THEN flip_walk(b, n, disk, x + dx, y + dy, dx, dy, cnt)
         ELSE flip_walk([b EXCEPT ![y][x] = disk], n, disk, x + dx, y + dy, dx, dy,
                        (cnt + 1) % (U8_MAX + 1))

\* flip_disks without the check of is_flippable_direction.
flip_disks_unchecked(b, n, disk, x, y, dx, dy) ==
    flip_walk(b, n, disk, x + dx, y + dy, dx, dy, 0)

flip_disks(b, n, disk, x, y, dx, dy) ==
    IF ~is_flippable_direction(b, n, disk, x, y, dx, dy)
    THEN [board |-> b, count |-> 0]
    ELSE flip_walk(b, n, disk, x + dx, y + dy, dx, dy, 0)

\* flip_all with each count assigned to the total instead of added to it.
RECURSIVE flip_all_last_count(_, _, _, _, _, _)
flip_all_last_count(acc, n, disk, x, y, k) ==
    IF k > Len(Directions) THEN acc
    ELSE LET r == flip_disks(acc.board, n, disk, x, y, Directions[k][1], Directions[k][2])
         IN  flip_all_last_count([board |-> r.board, count |-> r.count],
                                 n, disk, x, y, k + 1)

\* The 8 calls of flip_disks, one after the other on the board the previous
\* one left: acc is [board, count] after the first k - 1 directions.
RECURSIVE flip_all(_, _, _, _, _, _)
flip_all(acc, n, disk, x, y, k) ==
    IF k > Len(Directions) THEN acc
    ELSE LET r == flip_disks(acc.board, n, disk, x, y, Directions[k][1], Directions[k][2])
         IN  flip_all([board |-> r.board,
                       count |-> (acc.count + r.count) % (U8_MAX + 1)],
                      n, disk, x, y, k + 1)

\* place_disk without the write of the disk at (x, y).
place_disk_no_put(b, n, disk, x, y) ==
    IF y >= n \/ x >= n THEN [board |-> b, ret |-> "panic"]
    ELSE IF b[y][x] # "None" THEN [board |-> b, ret |-> "CannotPlaceDisk"]
    ELSE LET r == flip_all([board |-> b, count |-> 0], n, disk, x, y, 1)
         IN  IF r.count = 0
             THEN [board |-> r.board, ret |-> "CannotPlaceDisk"]
             ELSE [board |-> r.board, ret |-> "Ok"]

\* place_disk without the return on a cell that holds a disk.
place_disk_on_any_cell(b, n, disk, x, y) ==
    IF y >= n \/ x >= n THEN [board |-> b, ret |-> "panic"]
    ELSE LET placed == [b EXCEPT ![y][x] = disk]
             r == flip_all([board |-> placed, count |-> 0], n, disk, x, y, 1)
         IN  IF r.count = 0
             THEN [board |-> r.board, ret |-> "CannotPlaceDisk"]
             ELSE [board |-> r.board, ret |-> "Ok"]

\* place_disk: the board it leaves and what it returns. Indexing disks[y][x]
\* with x or y outside the board panics before anything is written.
place_disk(b, n, disk, x, y) ==
    IF y >= n \/ x >= n THEN [board |-> b, ret |-> "panic"]
    ELSE IF b[y][x] # "None" THEN [board |-> b, ret |-> "CannotPlaceDisk"]
    ELSE LET placed == [b EXCEPT ![y][x] = disk]
             r == flip_all([board |-> placed, count |-> 0], n, disk, x, y, 1)
         IN  IF r.count = 0
             THEN [board |-> r.board, ret |-> "CannotPlaceDisk"]
             ELSE [board |-> r.board, ret |-> "Ok"]

\* can_place_scan with a return of false after the inner loop: only i = 0.
RECURSIVE can_place_scan_first_i(_, _, _, _, _)
can_place_scan_first_i(b, n, disk, i, j) ==
    IF i >= n THEN FALSE
    ELSE IF j >= n THEN FALSE
    ELSE IF is_valid_place(b, n, disk, i, j) THEN TRUE
    ELSE can_place_scan_first_i(b, n, disk, i, j + 1)

\* The two loops of can_place_disk, at (i, j).
RECURSIVE can_place_scan(_, _, _, _, _)
can_place_scan(b, n, disk, i, j) ==
    IF i >= n THEN FALSE
    ELSE IF j >= n THEN can_place_scan(b, n, disk, i + 1, 0)
    ELSE IF is_valid_place(b, n, disk, i, j) THEN TRUE
    ELSE can_place_scan(b, n, disk, i, j + 1)

\* can_place_disk returning what the first cell gives, from inside the loops.
can_place_first_only(b, n, disk) == is_valid_place(b, n, disk, 0, 0)

can_place_disk(b, n, disk) == can_place_scan(b, n, disk, 0, 0)

\* switch_active_player without the return in its if: it falls to the last line.
switch_no_return(idx) == 0

switch_active_player(idx) == IF idx = 0 THEN 1 ELSE 0

\* count_disks with the two counts in the other order.
count_disks_swapped(b, n) ==
    LET cells == (0..(n - 1)) \X (0..(n - 1))
    IN  << Cardinality({c \in cells : b[c[2]][c[1]] = "White"}) % (U8_MAX + 1),
           Cardinality({c \in cells : b[c[2]][c[1]] = "Black"}) % (U8_MAX + 1) >>

\* count_disks: (black_counts, white_counts), u8 counters.
count_disks(b, n) ==
    LET cells == (0..(n - 1)) \X (0..(n - 1))
    IN  << Cardinality({c \in cells : b[c[2]][c[1]] = "Black"}) % (U8_MAX + 1),
           Cardinality({c \in cells : b[c[2]][c[1]] = "White"}) % (U8_MAX + 1) >>

get_own_disk(ps, player) == IF ps[1] = player THEN "Black" ELSE "White"

\* is_active that accepts either player.
is_a_player(ps, idx, player) == player \in {ps[1], ps[2]}

is_active(ps, idx, player) == ps[idx + 1] = player

----------------------------------------------------------------------------
\* Reversi: the messages, as functions of the struct's fields.

\* The fields as they are, with r returned to caller.
same(caller, r) ==
    [board |-> board, active_player_index |-> active_player_index,
     is_game_over |-> is_game_over, winner |-> winner,
     ret |-> <<"make_move", caller, r>>]

\* take_turn with the turn passed to the opponent whenever either colour can
\* still place a disk, without asking whether the opponent can.
take_turn_always_switch(caller, x, y) ==
    LET disk == get_own_disk(players, caller)
        placed == place_disk(board, board_size, disk, x, y)
        counts == count_disks(placed.board, board_size)
    IN  IF placed.ret # "Ok"
        THEN [same(caller, placed.ret) EXCEPT !.board = placed.board]
        ELSE IF \/ can_place_disk(placed.board, board_size, opposite(disk))
                \/ can_place_disk(placed.board, board_size, disk)
        THEN [same(caller, "Ok") EXCEPT
                 !.board = placed.board,
                 !.active_player_index = switch_active_player(active_player_index)]
        ELSE [same(caller, "Ok") EXCEPT
                 !.board = placed.board,
                 !.is_game_over = TRUE,
                 !.winner = IF counts[1] > counts[2] THEN players[1]
                            ELSE IF counts[1] < counts[2] THEN players[2]
                            ELSE winner]

\* take_turn without the end of the game: the last move returns Ok and
\* leaves is_game_over and winner as they are.
take_turn_never_over(caller, x, y) ==
    LET disk == get_own_disk(players, caller)
        placed == place_disk(board, board_size, disk, x, y)
    IN  IF placed.ret # "Ok"
        THEN [same(caller, placed.ret) EXCEPT !.board = placed.board]
        ELSE IF can_place_disk(placed.board, board_size, opposite(disk))
        THEN [same(caller, "Ok") EXCEPT
                 !.board = placed.board,
                 !.active_player_index = switch_active_player(active_player_index)]
        ELSE [same(caller, "Ok") EXCEPT !.board = placed.board]

\* make_move once the caller is known to be the active player: the placement,
\* then whose turn it is, then the end of the game.
take_turn(caller, x, y) ==
    LET disk == get_own_disk(players, caller)
        placed == place_disk(board, board_size, disk, x, y)
        counts == count_disks(placed.board, board_size)
    IN  IF placed.ret # "Ok"
        THEN [same(caller, placed.ret) EXCEPT !.board = placed.board]
        ELSE IF can_place_disk(placed.board, board_size, opposite(disk))
        THEN [same(caller, "Ok") EXCEPT
                 !.board = placed.board,
                 !.active_player_index = switch_active_player(active_player_index)]
        ELSE IF can_place_disk(placed.board, board_size, disk)
        THEN [same(caller, "Ok") EXCEPT !.board = placed.board]
        ELSE [same(caller, "Ok") EXCEPT
                 !.board = placed.board,
                 !.is_game_over = TRUE,
                 !.winner = IF counts[1] > counts[2] THEN players[1]
                            ELSE IF counts[1] < counts[2] THEN players[2]
                            ELSE winner]

\* make_move with its first two checks in the other order.
make_move_player_first(caller, x, y) ==
    IF ~is_active(players, active_player_index, caller)
    THEN same(caller, "InvalidPlayer")
    ELSE IF is_game_over THEN same(caller, "GameIsOver")
    ELSE take_turn(caller, x, y)

\* make_move by caller at (x, y): the fields it leaves and what it returns.
make_move(caller, x, y) ==
    IF is_game_over THEN same(caller, "GameIsOver")
    ELSE IF ~is_active(players, active_player_index, caller)
    THEN same(caller, "InvalidPlayer")
    ELSE take_turn(caller, x, y)

\* get_winner without the check of is_game_over.
get_winner_unchecked == winner

\* get_winner: what it returns (it takes &self).
get_winner ==
    IF ~is_game_over THEN "GameIsNotOver" ELSE winner

\* The fields while no contract is instantiated.
NoInstance ==
    [board_size |-> 0, players |-> <<ZERO_ADDRESS, ZERO_ADDRESS>>,
     active_player_index |-> 0, board |-> <<>>, is_game_over |-> FALSE,
     winner |-> ZERO_ADDRESS]

\* Reversi::new: "panic" and no instance when an assert fails (its own, then
\* those of Board::new), else the fields of the new instance.
ReversiNew(size, player_1, player_2) ==
    IF player_1 = player_2 THEN [fields |-> NoInstance, ret |-> "panic"]
    ELSE IF ~board_new_asserts(size) THEN [fields |-> NoInstance, ret |-> "panic"]
    ELSE [fields |-> [board_size |-> size, players |-> <<player_1, player_2>>,
                      active_player_index |-> 0, board |-> BoardNew(size),
                      is_game_over |-> FALSE, winner |-> ZERO_ADDRESS],
          ret |-> "Ok"]

----------------------------------------------------------------------------
\* The state machine

\* Coordinates outside the board: x alone, y alone, and both at the largest u8.
OutCells == {<<board_size, 0>>, <<0, board_size>>, <<U8_MAX, U8_MAX>>}

\* The calls <<caller, x, y>> of make_move that are explored, for a board of
\* 6: a first move of player 0 and cells on the diagonal, on the edges and in
\* the corners for either player, a stranger's call, calls outside the board
\* and a call on a centre cell.
MoveCalls ==
    << <<"alice", 2, 1>>, <<"alice", 4, 4>>, <<"alice", 1, 5>>, <<"alice", 5, 0>>,
       <<"bob", 0, 5>>, <<"bob", 2, 5>>, <<"bob", 0, 0>>, <<"bob", 0, 4>>,
       <<"bob", 4, 0>>, <<"bob", 5, 0>>,
       <<"charlie", 2, 1>>,
       <<"alice", board_size, 0>>, <<"bob", 0, board_size>>,
       <<"bob", U8_MAX, U8_MAX>>,
       <<"alice", 2, 2>>,
       <<"bob", 1, 1>>, <<"alice", 0, 0>>, <<"alice", 3, 1>> >>

ExploredCalls ==
    {MoveCalls[k] : k \in 1..(IF NCalls < Len(MoveCalls) THEN NCalls ELSE Len(MoveCalls))}

Init ==
    /\ board_size \in GameSizes
    /\ players = <<"alice", "bob">>
    /\ active_player_index = 0
    /\ board = BoardNew(board_size)
    /\ is_game_over = FALSE
    /\ winner = ZERO_ADDRESS
    /\ ret = <<"new", "none", "Ok">>

MakeMove(caller, x, y) ==
    LET r == make_move(caller, x, y)
    IN  /\ board' = r.board
        /\ active_player_index' = r.active_player_index
        /\ is_game_over' = r.is_game_over
        /\ winner' = r.winner
        /\ ret' = r.ret
        /\ UNCHANGED <<board_size, players>>

GetWinner ==
    /\ ret' = <<"get_winner", "none", get_winner>>
    /\ UNCHANGED state

Next ==
    \/ \E c \in ExploredCalls : MakeMove(c[1], c[2], c[3])
    \/ GetWinner

Spec == Init /\ [][Next]_vars

----------------------------------------------------------------------------
\* The state machine from before the instantiation

\* The board sizes (u8) the constructor is called with: below, at, between,
\* at and above the two limits, odd and even.
NewSizes == {0, 1, 4, 5, 6, 7, 8, 9, 10, 11, 12, U8_MAX - 1, U8_MAX}

Constructed == board # <<>>

InitNew ==
    /\ board_size = NoInstance.board_size
    /\ players = NoInstance.players
    /\ active_player_index = NoInstance.active_player_index
    /\ board = NoInstance.board
    /\ is_game_over = NoInstance.is_game_over
    /\ winner = NoInstance.winner
    /\ ret = <<"none", "none", "none">>

\* A call of the constructor. ret keeps its arguments in the place of the caller.
New(size, player_1, player_2) ==
    LET r == ReversiNew(size, player_1, player_2)
    IN  /\ ~Constructed
        /\ board_size' = r.fields.board_size
        /\ players' = r.fields.players
        /\ active_player_index' = r.fields.active_player_index
        /\ board' = r.fields.board
        /\ is_game_over' = r.fields.is_game_over
        /\ winner' = r.fields.winner
        /\ ret' = <<"new", <<size, player_1, player_2>>, r.ret>>

NextNew ==
    \/ \E size \in NewSizes, p1 \in Callers, p2 \in Callers : New(size, p1, p2)
    \/ Constructed /\ \E c \in ExploredCalls : MakeMove(c[1], c[2], c[3])
    \/ Constructed /\ GetWinner

SpecNew == InitNew /\ [][NextNew]_vars

----------------------------------------------------------------------------
\* The state machine from the boards the tests build

\* A board of 6 from its rows, top row first.
BoardOfRows(rows) == [y \in 0..5 |-> [x \in 0..5 |-> rows[y + 1][x + 1]]]

\* The boards the tests set the struct's board to: is_valid_place_ok_2,
\* can_place_disk_ok (first and third) and place_disk_ok.
TestBoards ==
    LET N == "None"
        B == "Black"
        W == "White"
    IN  { BoardOfRows(<< <<N, N, N, N, N, N>>,
                         <<N, N, N, W, N, N>>,
                         <<N, N, B, W, B, N>>,
                         <<N, N, B, W, N, N>>,
                         <<N, N, N, N, N, N>>,
                         <<N, N, N, N, N, N>> >>),
          BoardOfRows(<< <<N, N, N, N, B, N>>,
                         <<N, N, N, B, N, N>>,
                         <<N, W, W, W, W, W>>,
                         <<N, B, B, B, N, N>>,
                         <<N, W, N, B, N, N>>,
                         <<N, N, N, N, N, N>> >>),
          BoardOfRows(<< <<W, W, W, W, W, W>>,
                         <<W, W, W, W, W, W>>,
                         <<W, W, W, W, W, W>>,
                         <<B, B, W, W, W, W>>,
                         <<N, B, B, B, B, B>>,
                         <<W, W, W, W, W, W>> >>),
          BoardOfRows(<< <<B, B, B, B, B, B>>,
                         <<B, B, B, B, B, B>>,
                         <<B, B, B, B, B, B>>,
                         <<W, W, B, B, B, B>>,
                         <<N, W, W, W, W, W>>,
                         <<B, B, B, B, B, B>> >>) }

\* The struct as the tests build it: a board of TestBoards, the other fields
\* as the constructor sets them.
InitTests ==
    /\ board_size = MIN_BOARD_SIZE
    /\ players = <<"alice", "bob">>
    /\ active_player_index = 0
    /\ board \in TestBoards
    /\ is_game_over = FALSE
    /\ winner = ZERO_ADDRESS
    /\ ret = <<"new", "none", "Ok">>

SpecTests == InitTests /\ [][Next]_vars

----------------------------------------------------------------------------
\* What the properties are stated with

\* Every cell <<x, y>> of the board.
BoardCells == (0..(board_size - 1)) \X (0..(board_size - 1))

\* The coordinates a call is tried with in the properties: every cell of the
\* board and coordinates outside it.
AnyCells ==
    BoardCells \cup OutCells \cup {<<board_size, board_size>>, <<board_size - 1, board_size>>}

\* The 8 unit directions, as a set.
UnitDirections == {d \in {-1, 0, 1} \X {-1, 0, 1} : d # <<0, 0>>}

InBounds(x, y) == x >= 0 /\ x < board_size /\ y >= 0 /\ y < board_size

\* On board b, from (x, y) in direction d: a run of k >= 1 disks of the other
\* colour, then an in-bounds disk of colour disk.
Sandwiches(b, disk, x, y, d) ==
    /\ InBounds(x + d[1], y + d[2])
    /\ b[y + d[2]][x + d[1]] = opposite(disk)
    /\ \E k \in 1..(board_size - 1) :
          /\ InBounds(x + (k + 1) * d[1], y + (k + 1) * d[2])
          /\ b[y + (k + 1) * d[2]][x + (k + 1) * d[1]] = disk
          /\ \A i \in 2..k : b[y + i * d[2]][x + i * d[1]] = opposite(disk)

\* The rule of the game: (x, y) is a legal move for disk on board b.
Legal(b, disk, x, y) ==
    /\ InBounds(x, y)
    /\ b[y][x] = "None"
    /\ \E d \in UnitDirections : Sandwiches(b, disk, x, y, d)

HasLegalMove(b, disk) == \E c \in BoardCells : Legal(b, disk, c[1], c[2])

\* The number of disks of colour disk on board b.
NumDisks(b, disk) == Cardinality({c \in BoardCells : b[c[2]][c[1]] = disk})

\* Call result r left every field as it is.
Untouched(r) ==
    /\ r.board = board
    /\ r.active_player_index = active_player_index
    /\ r.is_game_over = is_game_over
    /\ r.winner = winner

ActivePlayer == players[active_player_index + 1]

----------------------------------------------------------------------------
\* C1: when the active player calls make_move on a cell of the board that is
\* illegal for their colour (occupied, or empty with no direction that
\* sandwiches), the call returns CannotPlaceDisk and board, active player,
\* is_game_over and winner are what they were.
C1_IllegalMoveChangesNothing ==
    \A c \in BoardCells :
        (/\ ~is_game_over
         /\ ~Legal(board, get_own_disk(players, ActivePlayer), c[1], c[2]))
        => LET r == make_move(ActivePlayer, c[1], c[2])
           IN  r.ret[3] = "CannotPlaceDisk" /\ Untouched(r)

\* C2: is_valid_place(colour, x, y) is true exactly when (x, y) is inside the
\* board, the cell is empty and one of the 8 unit directions holds a run of
\* one or more opponent disks followed by an in-bounds disk of the colour.
C2_IsValidPlaceIffLegal ==
    \A disk \in Disks, c \in AnyCells :
        is_valid_place(board, board_size, disk, c[1], c[2])
            <=> Legal(board, disk, c[1], c[2])

\* C2's case: a call has left a board where a colour has a legal move that
\* captures a run of two or more disks and an empty cell that is not legal.
C2_Witness ==
    /\ ret[1] = "make_move"
    /\ \E disk \in Disks, c \in BoardCells, d \in UnitDirections :
          /\ is_valid_place(board, board_size, disk, c[1], c[2])
          /\ Sandwiches(board, disk, c[1], c[2], d)
          /\ InBounds(c[1] + 2 * d[1], c[2] + 2 * d[2])
          /\ board[c[2] + 2 * d[2]][c[1] + 2 * d[1]] = opposite(disk)
    /\ \E disk \in Disks, c \in BoardCells :
          board[c[2]][c[1]] = "None" /\ ~is_valid_place(board, board_size, disk, c[1], c[2])

\* C3: after a successful make_move, decided on the board the move left: if
\* the opponent has a legal move the active player becomes the opponent and
\* the game goes on; otherwise if the mover has one the active player stays
\* and the game goes on; otherwise is_game_over becomes true.
C3_TurnAfterMove ==
    \A caller \in Callers, c \in BoardCells :
        LET r == make_move(caller, c[1], c[2])
            disk == get_own_disk(players, caller)
        IN  r.ret[3] = "Ok" =>
              IF HasLegalMove(r.board, opposite(disk))
              THEN /\ r.active_player_index = 1 - active_player_index
                   /\ ~r.is_game_over
              ELSE IF HasLegalMove(r.board, disk)
              THEN /\ r.active_player_index = active_player_index
                   /\ ~r.is_game_over
              ELSE r.is_game_over

\* C3's case: a successful move after which the mover is still the active
\* player (the opponent had no legal move, the mover had one).
C3_Witness ==
    /\ ret[1] = "make_move" /\ ret[3] = "Ok"
    /\ ~is_game_over
    /\ ActivePlayer = ret[2]
    /\ ~HasLegalMove(board, opposite(get_own_disk(players, ret[2])))

\* C4: a successful make_move of colour c that flips k opponent disks raises
\* the count of c by 1 + k, lowers the opponent's count by k and raises the
\* total by 1, and k >= 1.
C4_CountsAfterMove ==
    \A c \in BoardCells :
        LET r == make_move(ActivePlayer, c[1], c[2])
            disk == get_own_disk(players, ActivePlayer)
            k == Cardinality({f \in BoardCells :
                    board[f[2]][f[1]] = opposite(disk) /\ r.board[f[2]][f[1]] = disk})
            mine == IF disk = "Black" THEN 1 ELSE 2
            theirs == 3 - mine
            before == count_disks(board, board_size)
            after == count_disks(r.board, board_size)
        IN  r.ret[3] = "Ok" =>
              /\ k >= 1
              /\ after[mine] = before[mine] + 1 + k
              /\ after[theirs] = before[theirs] - k
              /\ after[1] + after[2] = before[1] + before[2] + 1

\* C4's case: player 1 has just made a successful move on a board that held
\* disks left by failed calls.
C4_Witness ==
    /\ ret = <<"make_move", "bob", "Ok">>
    /\ NumDisks(board, "Black") + NumDisks(board, "White") >= 8

\* C5: while the game is not over, make_move by anyone but the active player
\* returns InvalidPlayer for every (x, y), on the board or outside it, and
\* changes nothing.
C5_NotActivePlayerRejected ==
    \A caller \in Callers, c \in AnyCells :
        (~is_game_over /\ caller # ActivePlayer)
        => LET r == make_move(caller, c[1], c[2])
           IN  r.ret[3] = "InvalidPlayer" /\ Untouched(r)

\* C5's case: the other player has just called make_move out of turn.
C5_Witness ==
    /\ ret[1] = "make_move" /\ ret[3] = "InvalidPlayer"
    /\ ret[2] \in {players[1], players[2]}
    /\ ~is_game_over

\* C6: once is_game_over is true, every make_move, from any caller and for
\* any (x, y), returns GameIsOver whatever else is wrong with the call, and
\* is_game_over, the board, the active player and the winner stay as they are.
C6_GameOverIsFinal ==
    is_game_over =>
        \A caller \in Callers, c \in AnyCells :
            LET r == make_move(caller, c[1], c[2])
            IN  r.ret[3] = "GameIsOver" /\ Untouched(r)

\* C6's case: make_move has just been refused because the game was over.
C6_Witness ==
    is_game_over /\ ret[1] = "make_move" /\ ret[3] = "GameIsOver"

\* The winner the disks of board b decide.
WinnerByDisks(b) ==
    LET n0 == NumDisks(b, get_own_disk(players, players[1]))
        n1 == NumDisks(b, get_own_disk(players, players[2]))
    IN  IF n0 > n1 THEN players[1]
        ELSE IF n0 < n1 THEN players[2]
        ELSE ZERO_ADDRESS

\* C7: count_disks returns the number of disks of player 0's colour and of
\* player 1's colour, in that order; and the move that ends the game stores
\* the winner the final board decides: player 0 with more disks, player 1 with
\* fewer, the zero address with as many.
C7_WinnerByCount ==
    /\ count_disks(board, board_size)
         = << NumDisks(board, get_own_disk(players, players[1])),
              NumDisks(board, get_own_disk(players, players[2])) >>
    /\ \A c \in BoardCells :
          LET r == make_move(ActivePlayer, c[1], c[2])
          IN  (~is_game_over /\ r.is_game_over) => r.winner = WinnerByDisks(r.board)

\* C7's case: a move has just ended the game with as many disks of each colour.
C7_Witness ==
    /\ is_game_over
    /\ ret[1] = "make_move" /\ ret[3] = "Ok"
    /\ NumDisks(board, "Black") = NumDisks(board, "White")
    /\ winner = ZERO_ADDRESS

\* C8: make_move by the active player with x or y outside the board returns
\* CannotPlaceDisk (it does not abort) and changes nothing.
C8_OutOfBoundsIsAnError ==
    \A c \in AnyCells \ BoardCells :
        ~is_game_over
        => LET r == make_move(ActivePlayer, c[1], c[2])
           IN  r.ret[3] = "CannotPlaceDisk" /\ Untouched(r)

\* C9: on a board of 6 in the start state, player 0 holds the colour at (2,2)
\* and (3,3), and its make_move(3, 1) succeeds and leaves that colour at
\* (2,2), (3,3), (3,1) and (3,2), 4 disks of it and 1 of the other.
C9_FirstMoveScenario ==
    (ret[1] = "new" /\ board_size = 6) =>
        LET mover == get_own_disk(players, players[1])
            r == make_move(players[1], 3, 1)
        IN  /\ board[2][2] = mover /\ board[3][3] = mover
            /\ r.ret[3] = "Ok"
            /\ r.board[2][2] = mover /\ r.board[3][3] = mover
            /\ r.board[1][3] = mover /\ r.board[2][3] = mover
            /\ NumDisks(r.board, mover) = 4
            /\ NumDisks(r.board, opposite(mover)) = 1

\* C10: get_winner returns GameIsNotOver when is_game_over is false and the
\* stored winner when it is true (the zero address when the disks are as many
\* of each colour), and changes no field.
C10_GetWinner ==
    [][ret'[1] = "get_winner" =>
          /\ UNCHANGED state
          /\ ret'[3] = IF is_game_over THEN winner ELSE "GameIsNotOver"
          /\ is_game_over => ret'[3] = WinnerByDisks(board)]_vars

\* C10's case: get_winner has just returned player 1 after the end of a game.
C10_Witness ==
    is_game_over /\ ret = <<"get_winner", "none", "bob">>

----------------------------------------------------------------------------
\* C11: for each size N of 6, 8 and 10 (and two different players) the
\* constructor returns an instance with an N x N board holding White at
\* (N/2-1, N/2-1) and (N/2, N/2), Black at (N/2-1, N/2) and (N/2, N/2-1) and
\* nothing else, player 0 active, is_game_over false and no winner.
C11_StartState ==
    \A N \in {6, 8, 10} :
        (ret[1] = "new" /\ ret[2][1] = N /\ ret[2][2] # ret[2][3]) =>
            LET h == N \div 2
                white == {<<h - 1, h - 1>>, <<h, h>>}
                black == {<<h - 1, h>>, <<h, h - 1>>}
            IN  /\ ret[3] = "Ok"
                /\ board_size = N
                /\ DOMAIN board = 0..(N - 1)
                /\ \A y \in 0..(N - 1) : DOMAIN board[y] = 0..(N - 1)
                /\ \A c \in BoardCells :
                      board[c[2]][c[1]] = IF c \in white THEN "White"
                                          ELSE IF c \in black THEN "Black"
                                          ELSE "None"
                /\ players = <<ret[2][2], ret[2][3]>>
                /\ active_player_index = 0
                /\ ActivePlayer = ret[2][2]
                /\ ~is_game_over
                /\ winner = ZERO_ADDRESS
                /\ get_winner = "GameIsNotOver"

\* C11's case: the constructor has just returned a game on a board of 10.
C11_Witness ==
    ret[1] = "new" /\ ret[3] = "Ok" /\ board_size = MAX_BOARD_SIZE

\* C12: the constructor fails, and there is no instance, exactly when the
\* two players are the same account or the size is below 6, above 10 or odd;
\* with any other arguments it returns an instance.
C12_NewFailsIff ==
    ret[1] = "new" =>
        LET size == ret[2][1]
            bad == \/ ret[2][2] = ret[2][3]
                   \/ size < 6 \/ size > 10 \/ size % 2 = 1
        IN  /\ bad => (ret[3] = "panic" /\ ~Constructed)
            /\ ~bad => (ret[3] = "Ok" /\ Constructed)

\* C12's case: the constructor has just failed on an even size above 10, the
\* two players being different.
C12_Witness ==
    /\ ret[1] = "new" /\ ret[3] = "panic"
    /\ ret[2][1] > MAX_BOARD_SIZE /\ ret[2][1] % 2 = 0
    /\ ret[2][2] # ret[2][3]

----------------------------------------------------------------------------
\* The answer make_move gives caller on a cell that holds a disk.
RetryAnswer(caller) ==
    IF is_game_over THEN "GameIsOver"
    ELSE IF caller # ActivePlayer THEN "InvalidPlayer"
    ELSE "CannotPlaceDisk"

\* C13 as stated: a call of make_move that has just succeeded, made again by
\* the same caller for the same cell, returns CannotPlaceDisk.
C13_RetryCannotPlaceDisk ==
    [][\A c \in ExploredCalls :
          (MakeMove(c[1], c[2], c[3]) /\ ret'[3] = "Ok")
          => (make_move(c[1], c[2], c[3]).ret[3])' = "CannotPlaceDisk"]_vars

\* C13, amended: the cell of a make_move that succeeded holds a disk; a cell
\* that holds a disk holds one ever after; and on such a cell make_move by any
\* caller changes nothing and returns GameIsOver when the game is over, else
\* InvalidPlayer when the caller is not the active player, else
\* CannotPlaceDisk. So the retry of a successful move never succeeds, and it
\* returns CannotPlaceDisk when it comes from the active player of a game
\* that is not over.
C13_RetryFails ==
    [][/\ \A c \in ExploredCalls :
             (MakeMove(c[1], c[2], c[3]) /\ ret'[3] = "Ok")
             => board'[c[3]][c[2]] # "None"
       /\ \A c \in BoardCells :
             board[c[2]][c[1]] # "None" =>
                /\ board'[c[2]][c[1]] # "None"
                /\ \A caller \in Callers :
                      LET r == make_move(caller, c[1], c[2])
                      IN  r.ret[3] = RetryAnswer(caller) /\ Untouched(r)]_vars

\* C13's case: player 0's move at (2, 1) has succeeded (it took (2, 2)),
\* player 0 is the active player again, and its last call was refused with
\* CannotPlaceDisk.
C13_Witness ==
    /\ ret = <<"make_move", "alice", "CannotPlaceDisk">>
    /\ board[1][2] = "Black" /\ board[2][2] = "Black"
    /\ ~is_game_over /\ ActivePlayer = "alice"
    /\ make_move("alice", 2, 1).ret[3] = "CannotPlaceDisk"

----------------------------------------------------------------------------
\* C14: every cell of the board always holds None, Black or White; and over
\* any make_move, refused or not, a cell that holds a disk holds one after it
\* and the number of disks on the board does not go down.
C14_DisksStay ==
    /\ [](\A c \in BoardCells : board[c[2]][c[1]] \in {"None"} \cup Disks)
    /\ [][/\ \A c \in BoardCells :
                board[c[2]][c[1]] # "None" => board'[c[2]][c[1]] # "None"
          /\ NumDisks(board', "Black") + NumDisks(board', "White")
                >= NumDisks(board, "Black") + NumDisks(board, "White")]_vars

\* C14's case: player 1's call has just been refused with CannotPlaceDisk on
\* a board of 9 disks or more where a disk of the start was turned over.
C14_Witness ==
    /\ ret = <<"make_move", "bob", "CannotPlaceDisk">>
    /\ NumDisks(board, "Black") + NumDisks(board, "White") >= 9
    /\ \E c \in BoardCells :
          /\ BoardNew(board_size)[c[2]][c[1]] \in Disks
          /\ board[c[2]][c[1]] = opposite(BoardNew(board_size)[c[2]][c[1]])

----------------------------------------------------------------------------
\* C15: whenever is_game_over is true, neither Black nor White has a legal
\* move on the board: the game does not end while a player can still move.
C15_OverOnlyWithoutMoves ==
    is_game_over =>
        \A disk \in Disks : ~HasLegalMove(board, disk)

\* C15's case: a move has just ended the game on a board with empty cells and
\* with disks of both colours.
C15_Witness ==
    /\ is_game_over
    /\ ret[1] = "make_move" /\ ret[3] = "Ok"
    /\ \E c \in BoardCells : board[c[2]][c[1]] = "None"
    /\ \A disk \in Disks : NumDisks(board, disk) > 0

----------------------------------------------------------------------------
\* C16: every step that changes the board is a make_move that returned Ok,
\* filled exactly one empty cell with the mover's colour and turned over one
\* opponent disk or more; no call leaves a new disk that turned over nothing.
C16_BoardChangeIsCommittedMove ==
    [][board' # board =>
          LET disk == get_own_disk(players, ret'[2])
              filled == {c \in BoardCells :
                            board[c[2]][c[1]] = "None" /\ board'[c[2]][c[1]] # "None"}
              flipped == {c \in BoardCells :
                            /\ board[c[2]][c[1]] = opposite(disk)
                            /\ board'[c[2]][c[1]] = disk}
          IN  /\ ret'[1] = "make_move" /\ ret'[3] = "Ok"
              /\ Cardinality(filled) = 1
              /\ \A c \in filled : board'[c[2]][c[1]] = disk
              /\ Cardinality(flipped) >= 1]_vars

----------------------------------------------------------------------------
\* The cells a disk at (x, y) captures on board b in direction d: the run of
\* disks of the other colour between (x, y) and the first disk of colour disk.
RunCells(b, disk, x, y, d) ==
    IF ~Sandwiches(b, disk, x, y, d) THEN {}
    ELSE LET k == CHOOSE k \in 1..(board_size - 1) :
                      /\ InBounds(x + (k + 1) * d[1], y + (k + 1) * d[2])
                      /\ b[y + (k + 1) * d[2]][x + (k + 1) * d[1]] = disk
                      /\ \A i \in 1..k : b[y + i * d[2]][x + i * d[1]] = opposite(disk)
         IN  {<<x + i * d[1], y + i * d[2]>> : i \in 1..k}

Captured(b, disk, x, y) == UNION {RunCells(b, disk, x, y, d) : d \in UnitDirections}

\* C17: when place_disk of a colour at a cell returns Ok, the cell was empty
\* and holds the colour, the opponent disks of every capturing direction
\* between the cell and the first disk of the colour hold the colour, and
\* every other cell is as it was.
C17_PlacementFrame ==
    \A disk \in Disks, c \in BoardCells :
        LET r == place_disk(board, board_size, disk, c[1], c[2])
            taken == Captured(board, disk, c[1], c[2])
        IN  r.ret = "Ok" =>
              /\ board[c[2]][c[1]] = "None"
              /\ taken # {}
              /\ \A f \in taken : board[f[2]][f[1]] = opposite(disk)
              /\ \A f \in BoardCells :
                    r.board[f[2]][f[1]] = IF f = c \/ f \in taken THEN disk
                                          ELSE board[f[2]][f[1]]

\* C17's case: after a successful move, a placement that captures in two
\* directions or more, and one with an opponent disk behind the disk that
\* ends a captured run.
C17_Witness ==
    /\ ret[1] = "make_move" /\ ret[3] = "Ok"
    /\ \E disk \in Disks, c \in BoardCells :
          /\ place_disk(board, board_size, disk, c[1], c[2]).ret = "Ok"
          /\ Cardinality({d \in UnitDirections :
                              RunCells(board, disk, c[1], c[2], d) # {}}) >= 2
    /\ \E disk \in Disks, c \in BoardCells, d \in UnitDirections :
          LET k == Cardinality(RunCells(board, disk, c[1], c[2], d))
          IN  /\ board[c[2]][c[1]] = "None"
              /\ k >= 1
              /\ InBounds(c[1] + (k + 2) * d[1], c[2] + (k + 2) * d[2])
              /\ board[c[2] + (k + 2) * d[2]][c[1] + (k + 2) * d[1]] = opposite(disk)

----------------------------------------------------------------------------
\* C18: for every colour, cell (x, y) and unit direction (dx, dy),
\* is_flippable_direction is true exactly when the cells from (x, y) in the
\* direction are a run of one or more opponent disks, all on the board,
\* followed by a disk of the colour on the board. It is false when the next
\* cell is off the board, empty or of the colour, and when the run of
\* opponent disks ends at an empty cell or at the edge.
C18_FlippableIffSandwich ==
    \A disk \in Disks, c \in BoardCells, d \in UnitDirections :
        LET res == is_flippable_direction(board, board_size, disk, c[1], c[2], d[1], d[2])
            nx == c[1] + d[1]
            ny == c[2] + d[2]
        IN  /\ res <=> Sandwiches(board, disk, c[1], c[2], d)
            /\ (~InBounds(nx, ny) \/ board[ny][nx] \in {"None", disk}) => ~res

\* C18's case: a move has just captured, so a direction was flippable, on a
\* board that also holds a run of two opponent disks that ends at the edge
\* and a run that ends at an empty cell.
C18_Witness ==
    /\ ret[1] = "make_move" /\ ret[3] = "Ok"
    /\ \E disk \in Disks, c \in BoardCells, d \in UnitDirections :
          /\ InBounds(c[1] + 2 * d[1], c[2] + 2 * d[2])
          /\ ~InBounds(c[1] + 3 * d[1], c[2] + 3 * d[2])
          /\ board[c[2] + d[2]][c[1] + d[1]] = opposite(disk)
          /\ board[c[2] + 2 * d[2]][c[1] + 2 * d[1]] = opposite(disk)
          /\ ~is_flippable_direction(board, board_size, disk, c[1], c[2], d[1], d[2])
    /\ \E disk \in Disks, c \in BoardCells, d \in UnitDirections :
          /\ InBounds(c[1] + 2 * d[1], c[2] + 2 * d[2])
          /\ board[c[2] + d[2]][c[1] + d[1]] = opposite(disk)
          /\ board[c[2] + 2 * d[2]][c[1] + 2 * d[1]] = "None"
          /\ ~is_flippable_direction(board, board_size, disk, c[1], c[2], d[1], d[2])

----------------------------------------------------------------------------
\* C19: for every colour and every cell of the board, place_disk returns Ok
\* exactly when is_valid_place is true on the board before the call, and
\* returns CannotPlaceDisk when it is false.
C19_PlaceAgreesWithValid ==
    \A disk \in Disks, c \in BoardCells :
        LET r == place_disk(board, board_size, disk, c[1], c[2])
            valid == is_valid_place(board, board_size, disk, c[1], c[2])
        IN  /\ valid => r.ret = "Ok"
            /\ ~valid => r.ret = "CannotPlaceDisk"

\* C19's case: a placement has just been refused on a board where the mover
\* has a valid place, an empty cell that is not valid and only one capturing
\* direction from some valid place.
C19_Witness ==
    /\ ret[1] = "make_move" /\ ret[3] = "CannotPlaceDisk"
    /\ LET disk == get_own_disk(players, ret[2])
       IN  /\ \E c \in BoardCells :
                 /\ is_valid_place(board, board_size, disk, c[1], c[2])
                 /\ Cardinality({d \in UnitDirections :
                        Sandwiches(board, disk, c[1], c[2], d)}) = 1
           /\ \E c \in BoardCells :
                 /\ board[c[2]][c[1]] = "None"
                 /\ ~is_valid_place(board, board_size, disk, c[1], c[2])

----------------------------------------------------------------------------
\* C20: for either colour, can_place_disk is true exactly when is_valid_place
\* is true for some cell of the board; so it is false for a colour that
\* sandwiches nothing from any empty cell.
C20_CanPlaceIffSomeValid ==
    \A disk \in Disks :
        can_place_disk(board, board_size, disk)
            <=> \E c \in BoardCells : is_valid_place(board, board_size, disk, c[1], c[2])

\* C20's case: a successful move, after which make_move calls
\* can_place_disk, has left a board with empty cells where it is false for
\* one colour and true for the other.
C20_Witness ==
    /\ ret[1] = "make_move" /\ ret[3] = "Ok"
    /\ \E c \in BoardCells : board[c[2]][c[1]] = "None"
    /\ \E disk \in Disks :
          /\ ~can_place_disk(board, board_size, disk)
          /\ can_place_disk(board, board_size, opposite(disk))

----------------------------------------------------------------------------
\* The legal moves of colour disk on board b.
LegalCells(b, disk) == {c \in BoardCells : Legal(b, disk, c[1], c[2])}

\* C21: in every state reached from the constructor by make_move calls,
\* refused ones included, if is_game_over is false the active player has a
\* legal move on the board.
C21_NoStuckState ==
    (Constructed /\ ~is_game_over) =>
        LegalCells(board, get_own_disk(players, ActivePlayer)) # {}

\* C21's case: a call of the active player has just been refused and left
\* its disk, on a board of 10 disks or more where the opponent has no legal
\* move; the game is not over.
C21_Witness ==
    /\ Constructed /\ ~is_game_over
    /\ ret[1] = "make_move" /\ ret[3] = "CannotPlaceDisk"
    /\ ret[2] = ActivePlayer
    /\ NumDisks(board, "Black") + NumDisks(board, "White") >= 10
    /\ LegalCells(board, opposite(get_own_disk(players, ActivePlayer))) = {}

----------------------------------------------------------------------------
\* The state machine of games played to their end

\* The sizes the constructor accepts.
ValidSizes == {n \in MIN_BOARD_SIZE..MAX_BOARD_SIZE : n % 2 = 0}

TotalDisks(b) == NumDisks(b, "Black") + NumDisks(b, "White")

\* The first valid place of disk on board b from (i, j) on, in the order
\* can_place_disk takes the cells; <<n, 0>> when there is none.
RECURSIVE first_valid_place(_, _, _, _, _)
first_valid_place(b, n, disk, i, j) ==
    IF i >= n THEN <<n, 0>>
    ELSE IF j >= n THEN first_valid_place(b, n, disk, i + 1, 0)
    ELSE IF is_valid_place(b, n, disk, i, j) THEN <<i, j>>
    ELSE first_valid_place(b, n, disk, i, j + 1)

\* The legal moves the active player chooses from: every valid place early
\* in the game, the first one later.
MovesToTake ==
    LET disk == get_own_disk(players, ActivePlayer)
    IN  IF TotalDisks(board) < LiveFree
        THEN {c \in BoardCells : is_valid_place(board, board_size, disk, c[1], c[2])}
        ELSE {first_valid_place(board, board_size, disk, 0, 0)} \cap BoardCells

InitLive ==
    /\ board_size \in ValidSizes
    /\ players = <<"alice", "bob">>
    /\ active_player_index = 0
    /\ board = BoardNew(board_size)
    /\ is_game_over = FALSE
    /\ winner = ZERO_ADDRESS
    /\ ret = <<"new", "none", "Ok">>

\* The active player makes a legal move.
LegalMove ==
    /\ ~is_game_over
    /\ \E c \in MovesToTake : MakeMove(ActivePlayer, c[1], c[2])

\* Any explored call, early in the game.
EarlyCall ==
    /\ TotalDisks(board) < LiveFree
    /\ \E c \in ExploredCalls : MakeMove(c[1], c[2], c[3])

NextLive ==
    \/ LegalMove
    \/ EarlyCall

\* LegalMove can be taken: the state predicate that is ENABLED <<LegalMove>>_vars,
\* a legal move being a call that returns Ok and adds a disk.
CanMove == ~is_game_over /\ MovesToTake # {}

\* The active player keeps making legal moves: weak fairness of LegalMove,
\* WF_vars(LegalMove), written with CanMove for its ENABLED.
KeepsMoving == []<>(~CanMove) \/ []<><<LegalMove>>_vars

SpecLive == InitLive /\ [][NextLive]_vars /\ KeepsMoving

----------------------------------------------------------------------------
\* C22: every game ends. The board holds between 4 and N * N disks, no step
\* lowers their number and every successful make_move raises it by exactly
\* 1, so that a run from the start state has at most N * N - 4 successful
\* calls; and when the active player keeps making legal moves is_game_over
\* becomes true.
C22_GameTerminates ==
    /\ [](TotalDisks(board) \in 4..(board_size * board_size))
    /\ [][/\ TotalDisks(board') >= TotalDisks(board)
          /\ (ret'[1] = "make_move" /\ ret'[3] = "Ok")
                => TotalDisks(board') = TotalDisks(board) + 1]_vars
    /\ <>is_game_over

\* C22's case: a game on a board of 10 has ended after a move.
C22_Witness ==
    /\ is_game_over
    /\ board_size = MAX_BOARD_SIZE
    /\ ret[1] = "make_move" /\ ret[3] = "Ok"

----------------------------------------------------------------------------
\* The 8 calls of flip_disks taken in the order of the sequence order.
RECURSIVE flip_in_order(_, _, _, _, _, _, _)
flip_in_order(acc, n, disk, x, y, order, k) ==
    IF k > Len(order) THEN acc
    ELSE LET r == flip_disks(acc.board, n, disk, x, y, order[k][1], order[k][2])
         IN  flip_in_order([board |-> r.board,
                            count |-> (acc.count + r.count) % (U8_MAX + 1)],
                           n, disk, x, y, order, k + 1)

\* Other orders of the 8 directions: the reverse of Directions, and
\* Directions and its reverse started at their 4th element.
Orders ==
    LET len == Len(Directions)
        rev == [k \in 1..len |-> Directions[len + 1 - k]]
    IN  {rev,
         [k \in 1..len |-> Directions[((k + 2) % len) + 1]],
         [k \in 1..len |-> rev[((k + 2) % len) + 1]]}

\* Board b with disk at (x, y) and on every cell (x, y) captures, all at once.
FlippedAtOnce(b, disk, x, y) ==
    LET taken == Captured(b, disk, x, y)
    IN  [r \in 0..(board_size - 1) |-> [q \in 0..(board_size - 1) |->
            IF <<q, r>> = <<x, y>> \/ <<q, r>> \in taken THEN disk ELSE b[r][q]]]

\* C23: for a legal placement of a colour at (x, y): the disk written at
\* (x, y) changes no direction's is_flippable_direction; flipping a
\* direction that captures changes no other direction's
\* is_flippable_direction; and
\* place_disk, and the 8 flips taken in any other order, leave the board with
\* the runs captured on the board before the call turned over all at once.
C23_DirectionsIndependent ==
    \A disk \in Disks, c \in BoardCells :
        Legal(board, disk, c[1], c[2]) =>
            LET n == board_size
                placed == [board EXCEPT ![c[2]][c[1]] = disk]
                want == FlippedAtOnce(board, disk, c[1], c[2])
                start == [board |-> placed, count |-> 0]
            IN  /\ place_disk(board, n, disk, c[1], c[2]) = [board |-> want, ret |-> "Ok"]
                /\ \A d \in UnitDirections :
                      is_flippable_direction(placed, n, disk, c[1], c[2], d[1], d[2])
                        <=> is_flippable_direction(board, n, disk, c[1], c[2], d[1], d[2])
                /\ \A d \in UnitDirections, e \in UnitDirections :
                      (d # e /\ Sandwiches(board, disk, c[1], c[2], d)) =>
                      (is_flippable_direction(
                          flip_disks(placed, n, disk, c[1], c[2], d[1], d[2]).board,
                          n, disk, c[1], c[2], e[1], e[2])
                        <=> is_flippable_direction(placed, n, disk, c[1], c[2], e[1], e[2]))
                /\ \A order \in Orders :
                      flip_in_order(start, n, disk, c[1], c[2], order, 1).board = want

\* C23's case: a call of make_move has left a board with a legal placement
\* that captures in two directions or more, 3 disks or more in all.
C23_Witness ==
    /\ ret[1] = "make_move"
    /\ \E disk \in Disks, c \in BoardCells :
          /\ Legal(board, disk, c[1], c[2])
          /\ Cardinality({d \in UnitDirections :
                              RunCells(board, disk, c[1], c[2], d) # {}}) >= 2
          /\ Cardinality(Captured(board, disk, c[1], c[2])) >= 3

====
